---------------------------- MODULE Spec2Model ----------------------------
(* ZenClock (src/index.tsx): the mode / stopwatch / timer state machine,  *)
(* its display computation and its button captions.                        *)
(*                                                                         *)
(* Time is in milliseconds, as Date.now() gives it, counted from the       *)
(* instant the page was loaded.  Every handler runs to completion (single  *)
(* threaded event loop), so each handler is one action; the clock moves    *)
(* between handlers (Advance).                                             *)
EXTENDS Integers, Sequences, FiniteSets, TLC

VARIABLES
    currentMode,      \* line 8
    swRunning,        \* line 12
    swStartTime,      \* line 13
    swElapsedTime,    \* line 14
    timerRunning,     \* line 17
    timerEndTime,     \* line 18
    timerRemaining,   \* line 19
    timerInitialSet,  \* line 20
    btnStartText,     \* btnStart.textContent
    timeDisplay,      \* timeDisplay.textContent
    shown,            \* the three numbers last handed to pad(): <<h, m, s>>
    modeIndicator,    \* modeIndicator.textContent
    inputH,           \* inputH.value, a sequence of characters
    inputM,           \* inputM.value
    inputS,           \* inputS.value
    now,              \* Date.now()
    completeCalls,    \* calls of handleTimerComplete made by the callback that ran last
    lastOp,           \* the callback that ran last, "none" once the environment has moved since
    swRunTime,        \* observer: real time the stopwatch has spent running since its last reset
    swToggles,        \* observer: stopwatch start/pause presses since its last reset (saturating)
    timerPhase        \* observer: "fresh", "running", "paused", "expired" or "reset"

vars == <<currentMode, swRunning, swStartTime, swElapsedTime, timerRunning,
          timerEndTime, timerRemaining, timerInitialSet, btnStartText,
          timeDisplay, shown, modeIndicator, inputH, inputM, inputS, now,
          completeCalls, lastOp, swRunTime, swToggles, timerPhase>>

swVars == <<swRunning, swStartTime, swElapsedTime>>
timerVars == <<timerRunning, timerEndTime, timerRemaining, timerInitialSet>>
inputVars == <<inputH, inputM, inputS>>

-----------------------------------------------------------------------------
(* Bounds of the model *)

\* the clock stops advancing at MaxNow milliseconds
MaxNow == 2000
\* the clock advances Step milliseconds at a time
Step == 500
\* swToggles stops counting at MaxToggles
MaxToggles == 4

(* Program constants *)
MsPerSec == 1000
SecPerHour == 3600
SecPerMin == 60
HoursPerDay == 24

Modes == {"CLOCK", "STOPWATCH", "TIMER"}

\* what the user may have typed into the three fields: digits, nothing, or text
\* that is no number
ValidTriples ==
    { << <<"0">>, <<>>, <<"0">> >>,
      << <<"0">>, <<>>, <<"1">> >>,
      << <<"1">>, <<"1">>, <<"x">> >> }

\* the same, and a negative number of seconds
InputTriples == ValidTriples \cup { << <<>>, <<"0">>, <<"-", "1">> >> }

-----------------------------------------------------------------------------
(* Arithmetic of the source language *)

\* a % b of JavaScript for b > 0: the remainder has the sign of the dividend
JsRem(a, b) == IF a >= 0 THEN a % b ELSE -((-a) % b)

\* Math.floor(a / b) for b > 0
FloorDiv(a, b) == a \div b

\* the seconds of the timer rounded down, as the stopwatch rounds them
CeilDivFloors(a, b) == a \div b

\* Math.ceil(a / b) for b > 0
CeilDiv(a, b) == -((-a) \div b)

\* Math.max(a, b)
Max(a, b) == IF a >= b THEN a ELSE b

Digits == <<"0", "1", "2", "3", "4", "5", "6", "7", "8", "9">>

IsDigit(c) == \E i \in 1..10 : Digits[i] = c

DigitValue(c) == (CHOOSE i \in 1..10 : Digits[i] = c) - 1

\* the value of the longest prefix of digits of str, and whether there is one
RECURSIVE DigitPrefix(_, _, _)
DigitPrefix(str, acc, seen) ==
    IF str # <<>> /\ IsDigit(Head(str))
    THEN DigitPrefix(Tail(str), acc * 10 + DigitValue(Head(str)), TRUE)
    ELSE [nan |-> ~seen, val |-> acc]

\* parseInt(str): an optional sign, then the leading digits; NaN when there are none
ParseInt(str) ==
    IF str # <<>> /\ Head(str) = "-"
    THEN LET p == DigitPrefix(Tail(str), 0, FALSE) IN [nan |-> p.nan, val |-> -p.val]
    ELSE DigitPrefix(str, 0, FALSE)

\* parseInt(str) || 0
ParseIntOrZero(str) == LET p == ParseInt(str) IN IF p.nan THEN 0 ELSE p.val

\* pad(n) for an n that is already floored: toString().padStart(2, '0')
Pad(n) == IF 0 <= n /\ n <= 9 THEN "0" \o ToString(n) ELSE ToString(n)

\* `${h}:${m}:${s}`
Text(parts) == Pad(parts[1]) \o ":" \o Pad(parts[2]) \o ":" \o Pad(parts[3])

\* the hours wrapped at 24, as a clock of the day would show them
PartsWrapped(totalSecs) ==
    << FloorDiv(totalSecs, SecPerHour) % HoursPerDay,
       FloorDiv(JsRem(totalSecs, SecPerHour), SecPerMin),
       JsRem(totalSecs, SecPerMin) >>

\* the three numbers pad() is given for a count of seconds, floored as pad() floors them
Parts(totalSecs) ==
    << FloorDiv(totalSecs, SecPerHour),
       FloorDiv(JsRem(totalSecs, SecPerHour), SecPerMin),
       JsRem(totalSecs, SecPerMin) >>

\* getHours(), getMinutes(), getSeconds() of the instant t
ClockParts(t) ==
    << (t \div (MsPerSec * SecPerHour)) % HoursPerDay,
       (t \div (MsPerSec * SecPerMin)) % SecPerMin,
       (t \div MsPerSec) % SecPerMin >>

\* elapsed of the STOPWATCH branch of updateDisplay
Elapsed(running, startTime, elapsedTime, t) ==
    IF running THEN t - startTime ELSE elapsedTime

\* remaining of the TIMER branch of updateDisplay
Remaining(running, endTime, remainingTime, t) ==
    IF running THEN Max(0, endTime - t) ELSE remainingTime

\* the timer branch of updateDisplay finds the running timer at its deadline
Expires(mode, tRun, tEnd, t) ==
    mode = "TIMER" /\ tRun /\ Max(0, tEnd - t) = 0

\* (h * 3600 + m * 60 + s) * 1000 of the values of the three fields
ConfiguredMs(h, m, s) ==
    (ParseIntOrZero(h) * SecPerHour + ParseIntOrZero(m) * SecPerMin + ParseIntOrZero(s)) * MsPerSec

-----------------------------------------------------------------------------
(* updateDisplay, run on the state a handler has produced so far: mode,    *)
(* the stopwatch fields, the timer fields it reads, the caption and the    *)
(* observer of the timer.  It sets the display, and on expiry stops the    *)
(* timer and calls handleTimerComplete.                                    *)
\* updateDisplay without line 71: the expired timer is left running
UpdateDisplayKeepsRunning(mode, swRun, swStart, swElapsed, tRun, tRem, btn, phase) ==
    LET expires == Expires(mode, tRun, timerEndTime, now)
        parts ==
            CASE mode = "CLOCK" -> ClockParts(now)
              [] mode = "STOPWATCH" ->
                    Parts(FloorDiv(Elapsed(swRun, swStart, swElapsed, now), MsPerSec))
              [] mode = "TIMER" ->
                    Parts(CeilDiv(Remaining(tRun, timerEndTime, tRem, now), MsPerSec))
    IN  /\ timerRunning' = tRun
        /\ btnStartText' = IF expires THEN "Start" ELSE btn
        /\ completeCalls' = IF expires THEN 1 ELSE 0
        /\ timerPhase' = IF expires THEN "expired" ELSE phase
        /\ shown' = parts
        /\ timeDisplay' = Text(parts)
        /\ modeIndicator' = mode

\* updateDisplay with a handleTimerComplete that leaves the caption alone (no line 85)
UpdateDisplayKeepsCaption(mode, swRun, swStart, swElapsed, tRun, tRem, btn, phase) ==
    LET expires == Expires(mode, tRun, timerEndTime, now)
        parts ==
            CASE mode = "CLOCK" -> ClockParts(now)
              [] mode = "STOPWATCH" ->
                    Parts(FloorDiv(Elapsed(swRun, swStart, swElapsed, now), MsPerSec))
              [] mode = "TIMER" ->
                    Parts(CeilDiv(Remaining(tRun, timerEndTime, tRem, now), MsPerSec))
    IN  /\ timerRunning' = IF expires THEN FALSE ELSE tRun
        /\ btnStartText' = btn
        /\ completeCalls' = IF expires THEN 1 ELSE 0
        /\ timerPhase' = IF expires THEN "expired" ELSE phase
        /\ shown' = parts
        /\ timeDisplay' = Text(parts)
        /\ modeIndicator' = mode

UpdateDisplay(mode, swRun, swStart, swElapsed, tRun, tRem, btn, phase) ==
    LET expires == Expires(mode, tRun, timerEndTime, now)
        parts ==
            CASE mode = "CLOCK" -> ClockParts(now)
              [] mode = "STOPWATCH" ->
                    Parts(FloorDiv(Elapsed(swRun, swStart, swElapsed, now), MsPerSec))
              [] mode = "TIMER" ->
                    Parts(CeilDiv(Remaining(tRun, timerEndTime, tRem, now), MsPerSec))
    IN  /\ timerRunning' = IF expires THEN FALSE ELSE tRun
        /\ btnStartText' = IF expires THEN "Start" ELSE btn
        /\ completeCalls' = IF expires THEN 1 ELSE 0
        /\ timerPhase' = IF expires THEN "expired" ELSE phase
        /\ shown' = parts
        /\ timeDisplay' = Text(parts)
        /\ modeIndicator' = mode

-----------------------------------------------------------------------------
InitWith(triples) ==
    /\ currentMode = "CLOCK"
    /\ swRunning = FALSE
    /\ swStartTime = 0
    /\ swElapsedTime = 0
    /\ timerRunning = FALSE
    /\ timerEndTime = 0
    /\ timerRemaining = 0
    /\ timerInitialSet = 0
    /\ btnStartText = "Start"
    /\ now = 0
    /\ shown = ClockParts(0)
    /\ timeDisplay = Text(ClockParts(0))
    /\ modeIndicator = "CLOCK"
    /\ \E t \in triples : inputH = t[1] /\ inputM = t[2] /\ inputS = t[3]
    /\ completeCalls = 0
    /\ lastOp = "tick"
    /\ swRunTime = 0
    /\ swToggles = 0
    /\ timerPhase = "fresh"

Init == InitWith(InputTriples)

\* time passes between two callbacks
Advance ==
    /\ now + Step <= MaxNow
    /\ now' = now + Step
    /\ swRunTime' = IF swRunning THEN swRunTime + Step ELSE swRunTime
    /\ lastOp' = "none"
    /\ completeCalls' = 0
    /\ UNCHANGED <<currentMode, swVars, timerVars, btnStartText, timeDisplay, shown,
                   modeIndicator, inputVars, swToggles, timerPhase>>

\* the user edits one of the three fields
EditInput(triples) ==
    /\ \E t \in triples :
          /\ t # <<inputH, inputM, inputS>>
          /\ inputH' = t[1] /\ inputM' = t[2] /\ inputS' = t[3]
    /\ lastOp' = "none"
    /\ completeCalls' = 0
    /\ UNCHANGED <<currentMode, swVars, timerVars, btnStartText, timeDisplay, shown,
                   modeIndicator, now, swRunTime, swToggles, timerPhase>>

\* the interval callback: setInterval(updateDisplay, 100)
Tick ==
    /\ UpdateDisplay(currentMode, swRunning, swStartTime, swElapsedTime,
                     timerRunning, timerRemaining, btnStartText, timerPhase)
    /\ lastOp' = "tick"
    /\ UNCHANGED <<currentMode, swVars, timerEndTime, timerRemaining, timerInitialSet,
                   inputVars, now, swRunTime, swToggles>>

\* switchMode that pauses a running stopwatch when the user leaves it
SwitchModePausing(newMode) ==
    /\ currentMode' = newMode
    /\ swRunning' = IF newMode # "STOPWATCH" THEN FALSE ELSE swRunning
    /\ swElapsedTime' = IF newMode # "STOPWATCH" /\ swRunning
                         THEN now - swStartTime ELSE swElapsedTime
    /\ UpdateDisplay(newMode, swRunning', swStartTime, swElapsedTime',
                     timerRunning, timerRemaining,
                     CASE newMode = "CLOCK" -> btnStartText
                       [] newMode = "STOPWATCH" -> (IF swRunning THEN "Pause" ELSE "Start")
                       [] newMode = "TIMER" -> (IF timerRunning THEN "Pause" ELSE "Start"),
                     timerPhase)
    /\ lastOp' = "switch"
    /\ UNCHANGED <<swStartTime, timerEndTime, timerRemaining, timerInitialSet,
                   inputVars, now, swRunTime, swToggles>>

\* switchMode(newMode)
SwitchMode(newMode) ==
    /\ currentMode' = newMode
    /\ UpdateDisplay(newMode, swRunning, swStartTime, swElapsedTime,
                     timerRunning, timerRemaining,
                     CASE newMode = "CLOCK" -> btnStartText
                       [] newMode = "STOPWATCH" -> (IF swRunning THEN "Pause" ELSE "Start")
                       [] newMode = "TIMER" -> (IF timerRunning THEN "Pause" ELSE "Start"),
                     timerPhase)
    /\ lastOp' = "switch"
    /\ UNCHANGED <<swVars, timerEndTime, timerRemaining, timerInitialSet,
                   inputVars, now, swRunTime, swToggles>>

\* the STOPWATCH branch with line 183 as swStartTime = Date.now(): a resume
\* forgets the banked time
StartPauseStopwatchForgets ==
    /\ currentMode = "STOPWATCH"
    /\ IF ~swRunning
       THEN /\ swStartTime' = now
            /\ swRunning' = TRUE
            /\ btnStartText' = "Pause"
            /\ UNCHANGED swElapsedTime
       ELSE /\ swElapsedTime' = now - swStartTime
            /\ swRunning' = FALSE
            /\ btnStartText' = "Resume"
            /\ UNCHANGED swStartTime
    /\ swToggles' = IF swToggles < MaxToggles THEN swToggles + 1 ELSE swToggles
    /\ UNCHANGED <<timerVars, timerPhase, swRunTime>>

\* the STOPWATCH branch of the click handler of btnStart
StartPauseStopwatch ==
    /\ currentMode = "STOPWATCH"
    /\ IF ~swRunning
       THEN /\ swStartTime' = now - swElapsedTime
            /\ swRunning' = TRUE
            /\ btnStartText' = "Pause"
            /\ UNCHANGED swElapsedTime
       ELSE /\ swElapsedTime' = now - swStartTime
            /\ swRunning' = FALSE
            /\ btnStartText' = "Resume"
            /\ UNCHANGED swStartTime
    /\ swToggles' = IF swToggles < MaxToggles THEN swToggles + 1 ELSE swToggles
    /\ UNCHANGED <<timerVars, timerPhase, swRunTime>>

\* the TIMER branch with line 202 as Date.now() + timerInitialSet: a resume
\* starts the whole duration again
StartPauseTimerRestarts ==
    /\ currentMode = "TIMER"
    /\ IF ~timerRunning
       THEN LET fresh == timerRemaining <= 0
                rem == IF fresh THEN ConfiguredMs(inputH, inputM, inputS) ELSE timerRemaining
            IN  IF fresh /\ rem <= 0
                THEN /\ timerRemaining' = rem
                     /\ UNCHANGED <<timerRunning, timerEndTime, timerInitialSet,
                                    btnStartText, timerPhase>>
                ELSE /\ timerRemaining' = rem
                     /\ timerInitialSet' = IF fresh THEN rem ELSE timerInitialSet
                     /\ timerEndTime' = now + timerInitialSet'
                     /\ timerRunning' = TRUE
                     /\ btnStartText' = "Pause"
                     /\ timerPhase' = "running"
       ELSE /\ timerRemaining' = timerEndTime - now
            /\ timerRunning' = FALSE
            /\ btnStartText' = "Resume"
            /\ timerPhase' = "paused"
            /\ UNCHANGED <<timerEndTime, timerInitialSet>>
    /\ UNCHANGED <<swVars, swRunTime, swToggles>>

\* the TIMER branch without line 199: a total of zero or less starts the timer
StartPauseTimerStartsZero ==
    /\ currentMode = "TIMER"
    /\ IF ~timerRunning
       THEN LET fresh == timerRemaining <= 0
                rem == IF fresh THEN ConfiguredMs(inputH, inputM, inputS) ELSE timerRemaining
            IN  /\ timerRemaining' = rem
                /\ timerInitialSet' = IF fresh THEN rem ELSE timerInitialSet
                /\ timerEndTime' = now + rem
                /\ timerRunning' = TRUE
                /\ btnStartText' = "Pause"
                /\ timerPhase' = "running"
       ELSE /\ timerRemaining' = timerEndTime - now
            /\ timerRunning' = FALSE
            /\ btnStartText' = "Resume"
            /\ timerPhase' = "paused"
            /\ UNCHANGED <<timerEndTime, timerInitialSet>>
    /\ UNCHANGED <<swVars, swRunTime, swToggles>>

\* the TIMER branch of the click handler of btnStart
StartPauseTimer ==
    /\ currentMode = "TIMER"
    /\ IF ~timerRunning
       THEN LET fresh == timerRemaining <= 0
                rem == IF fresh THEN ConfiguredMs(inputH, inputM, inputS) ELSE timerRemaining
            IN  IF fresh /\ rem <= 0
                THEN /\ timerRemaining' = rem
                     /\ UNCHANGED <<timerRunning, timerEndTime, timerInitialSet,
                                    btnStartText, timerPhase>>
                ELSE /\ timerRemaining' = rem
                     /\ timerInitialSet' = IF fresh THEN rem ELSE timerInitialSet
                     /\ timerEndTime' = now + rem
                     /\ timerRunning' = TRUE
                     /\ btnStartText' = "Pause"
                     /\ timerPhase' = "running"
       ELSE /\ timerRemaining' = timerEndTime - now
            /\ timerRunning' = FALSE
            /\ btnStartText' = "Resume"
            /\ timerPhase' = "paused"
            /\ UNCHANGED <<timerEndTime, timerInitialSet>>
    /\ UNCHANGED <<swVars, swRunTime, swToggles>>

\* a click handler with no test of the mode at line 181: in CLOCK mode it
\* toggles the stopwatch
StartPauseClockToggles ==
    /\ currentMode = "CLOCK"
    /\ IF ~swRunning
       THEN /\ swStartTime' = now - swElapsedTime
            /\ swRunning' = TRUE
            /\ btnStartText' = "Pause"
            /\ UNCHANGED swElapsedTime
       ELSE /\ swElapsedTime' = now - swStartTime
            /\ swRunning' = FALSE
            /\ btnStartText' = "Resume"
            /\ UNCHANGED swStartTime
    /\ swToggles' = IF swToggles < MaxToggles THEN swToggles + 1 ELSE swToggles
    /\ UNCHANGED <<timerVars, timerPhase, swRunTime>>

\* the click handler of btnStart in CLOCK mode: neither branch is taken
StartPauseClock ==
    /\ currentMode = "CLOCK"
    /\ UNCHANGED <<swVars, timerVars, btnStartText, timerPhase, swRunTime, swToggles>>

\* the click handler of btnStart
StartPause ==
    /\ \/ StartPauseStopwatch
       \/ StartPauseTimer
       \/ StartPauseClock
    /\ lastOp' = "start"
    /\ completeCalls' = 0
    /\ UNCHANGED <<currentMode, timeDisplay, shown, modeIndicator, inputVars, now>>

\* a reset that is not scoped to the mode: it clears both the stopwatch and the timer
ResetBoth ==
    /\ currentMode \in {"STOPWATCH", "TIMER"}
    /\ swRunning' = FALSE
    /\ swElapsedTime' = 0
    /\ swStartTime' = 0
    /\ swRunTime' = 0
    /\ swToggles' = 0
    /\ timerRemaining' = 0
    /\ UNCHANGED <<timerEndTime, timerInitialSet>>
    /\ UpdateDisplay(currentMode, FALSE, 0, 0, FALSE, 0, "Start", "reset")
    /\ lastOp' = "reset"
    /\ UNCHANGED <<currentMode, inputVars, now>>

\* the click handler of btnReset
Reset ==
    /\ CASE currentMode = "STOPWATCH" ->
              /\ swRunning' = FALSE
              /\ swElapsedTime' = 0
              /\ swStartTime' = 0
              /\ swRunTime' = 0
              /\ swToggles' = 0
              /\ UNCHANGED <<timerEndTime, timerRemaining, timerInitialSet>>
              /\ UpdateDisplay(currentMode, FALSE, 0, 0,
                               timerRunning, timerRemaining, "Start", timerPhase)
         [] currentMode = "TIMER" ->
              /\ timerRemaining' = 0
              /\ UNCHANGED <<swVars, swRunTime, swToggles, timerEndTime, timerInitialSet>>
              /\ UpdateDisplay(currentMode, swRunning, swStartTime, swElapsedTime,
                               FALSE, 0, "Start", "reset")
         [] currentMode = "CLOCK" ->
              /\ UNCHANGED <<swVars, swRunTime, swToggles, timerEndTime, timerRemaining,
                             timerInitialSet>>
              /\ UpdateDisplay(currentMode, swRunning, swStartTime, swElapsedTime,
                               timerRunning, timerRemaining, btnStartText, timerPhase)
    /\ lastOp' = "reset"
    /\ UNCHANGED <<currentMode, inputVars, now>>

Next ==
    \/ Advance
    \/ EditInput(InputTriples)
    \/ Tick
    \/ \E newMode \in Modes : SwitchMode(newMode)
    \/ StartPause
    \/ Reset

Spec == Init /\ [][Next]_vars

\* the same program when the user only ever types non-negative numbers (or no number)
InitValid == InitWith(ValidTriples)

NextValid ==
    \/ Advance
    \/ EditInput(ValidTriples)
    \/ Tick
    \/ \E newMode \in Modes : SwitchMode(newMode)
    \/ StartPause
    \/ Reset

SpecValid == InitValid /\ [][NextValid]_vars

\* the program with its interval running: setInterval (line 228) delivers the
\* tick again and again, whatever else happens
SpecFair == InitValid /\ [][NextValid]_vars /\ WF_vars(Tick)

\* Stopwatch durations for the display computation: the stopwatch was started
\* at instant 0 and paused after d milliseconds, d around the boundaries of
\* the second, the minute, the hour and the day.
FormatDurations ==
    { ((h * SecPerHour + m * SecPerMin + sec) * MsPerSec) + ms :
        h \in {0, 1, 23, 24, 25}, m \in {0, 1, 59}, sec \in {0, 1, 59}, ms \in {0, 999} }

InitFormat ==
    /\ currentMode = "STOPWATCH"
    /\ \E d \in FormatDurations :
          /\ now = d
          /\ swElapsedTime = d
          /\ swRunTime = d
    /\ swRunning = FALSE
    /\ swStartTime = 0
    /\ swToggles = 2
    /\ timerRunning = FALSE
    /\ timerEndTime = 0
    /\ timerRemaining = 0
    /\ timerInitialSet = 0
    /\ btnStartText = "Resume"
    /\ shown = Parts(0)
    /\ timeDisplay = Text(Parts(0))
    /\ modeIndicator = "STOPWATCH"
    /\ inputH = <<"0">> /\ inputM = <<>> /\ inputS = <<"1">>
    /\ completeCalls = 0
    /\ lastOp = "start"
    /\ timerPhase = "fresh"

\* the callbacks at that instant
NextFormat ==
    \/ Tick
    \/ \E newMode \in Modes : SwitchMode(newMode)
    \/ StartPause
    \/ Reset

SpecFormat == InitFormat /\ [][NextFormat]_vars

TypeOK ==
    /\ currentMode \in Modes
    /\ swRunning \in BOOLEAN
    /\ timerRunning \in BOOLEAN
    /\ btnStartText \in {"Start", "Pause", "Resume"}
    /\ timerPhase \in {"fresh", "running", "paused", "expired", "reset"}
    /\ lastOp \in {"none", "tick", "switch", "start", "reset"}
    /\ completeCalls \in {0, 1}

-----------------------------------------------------------------------------
(* The claims *)

ShownZero == shown = <<0, 0, 0>> /\ timeDisplay = "00:00:00"

\* C1: the completion effect is raised exactly once per expiry.  A tick in
\* TIMER mode that reads a running timer at or after its deadline stops the
\* timer and calls handleTimerComplete once; a callback calls it only when it
\* finds the timer running, and stops the timer when it does; and a stopped
\* timer runs again only through a press of start/pause in TIMER mode.
C1_CompletionOncePerExpiry ==
    [][ /\ (lastOp' = "tick" /\ currentMode = "TIMER" /\ timerRunning /\ now >= timerEndTime)
            => (~timerRunning' /\ completeCalls' = 1)
        /\ (completeCalls' # 0)
            => (completeCalls' = 1 /\ timerRunning /\ ~timerRunning' /\ now >= timerEndTime)
        /\ (~timerRunning /\ timerRunning')
            => (lastOp' = "start" /\ currentMode = "TIMER") ]_vars

\* a tick in TIMER mode after the expiry, which raised nothing
C1_Witness ==
    /\ timerPhase = "expired" /\ currentMode = "TIMER" /\ lastOp = "tick"
    /\ completeCalls = 0 /\ ~timerRunning /\ now >= timerEndTime

\* C2: once the timer has expired, every later display read in TIMER mode, up
\* to the next press of start/pause or reset, computes a remaining time of 0
\* and shows 00:00:00.
C2_ExpiredShowsZero ==
    (timerPhase = "expired" /\ currentMode = "TIMER" /\ lastOp \in {"tick", "switch"}
        /\ completeCalls = 0)
    => (Remaining(timerRunning, timerEndTime, timerRemaining, now) = 0 /\ ShownZero)

\* C3: mode switches, ticks and the passing of time leave swRunning,
\* swStartTime and swElapsedTime as they are, and the elapsed time shown on
\* switching (back) to STOPWATCH is the real time the stopwatch has spent
\* running, as if no switch had occurred.
C3_SwitchKeepsStopwatch ==
    [][ /\ (lastOp' \in {"switch", "tick", "none"}) => UNCHANGED swVars
        /\ (lastOp' = "switch" /\ currentMode' = "STOPWATCH")
            => shown' = Parts(FloorDiv(swRunTime', MsPerSec)) ]_vars

\* the stopwatch was started once, the timer was started Step later (so in
\* TIMER mode), and the user has switched back to the running stopwatch
C3_Witness ==
    /\ currentMode = "STOPWATCH" /\ lastOp = "switch"
    /\ swRunning /\ swToggles = 1 /\ now - swStartTime = 2 * Step
    /\ timerRunning /\ timerEndTime = swStartTime + Step + timerRemaining
    /\ shown = <<0, 0, 1>>

\* C4: reset is scoped to the mode.  In TIMER mode it leaves timerRunning
\* false and timerRemaining 0 and every stopwatch field as it was; in STOPWATCH
\* mode it leaves swRunning false and swElapsedTime 0 and every timer field as
\* it was.
C4_ResetIsModeScoped ==
    [][ lastOp' = "reset" =>
          /\ currentMode = "TIMER" =>
                (~timerRunning' /\ timerRemaining' = 0 /\ UNCHANGED swVars)
          /\ currentMode = "STOPWATCH" =>
                (~swRunning' /\ swElapsedTime' = 0 /\ UNCHANGED timerVars) ]_vars

\* a reset of the timer (which had been started) beside a running stopwatch
C4_Witness ==
    /\ lastOp = "reset" /\ currentMode = "TIMER" /\ timerPhase = "reset"
    /\ ~timerRunning /\ timerRemaining = 0 /\ timerInitialSet > 0
    /\ swRunning /\ swRunTime > 0

\* C5: a press of start/pause in TIMER mode with the timer not running,
\* timerRemaining <= 0 and a configured total <= 0 changes nothing: the four
\* timer fields and the caption keep their values.
C5_ZeroStartIsNoOp ==
    [][ (lastOp' = "start" /\ currentMode = "TIMER" /\ ~timerRunning
            /\ timerRemaining <= 0 /\ ConfiguredMs(inputH, inputM, inputS) <= 0)
        => UNCHANGED <<timerVars, btnStartText>> ]_vars

\* C6: the stopwatch banks exactly the time it has run.  Whenever it is
\* paused, swElapsedTime is the sum of the real time of its runs since the last
\* reset (t1 + t2 after start, pause, start, pause), whatever time passed while
\* it was paused; and, the clock never going back, swElapsedTime never
\* decreases except by a reset of the stopwatch.
C6_StopwatchBanksRunTime ==
    [][ /\ ~swRunning' => swElapsedTime' = swRunTime'
        /\ ~(lastOp' = "reset" /\ currentMode = "STOPWATCH")
              => swElapsedTime' >= swElapsedTime ]_vars

\* start, pause, start, pause: two runs of Step each banked, with more time
\* gone by than the stopwatch ran
C6_Witness ==
    /\ ~swRunning /\ swToggles = 4 /\ lastOp = "start"
    /\ swElapsedTime = 2 * Step /\ swStartTime = Step /\ now = 3 * Step

\* the timer is not paused in the middle of a run: never started, reset, or expired
NotPausedMidRun == timerPhase \in {"fresh", "reset", "expired"}

\* C7: a press of start/pause in TIMER mode on a timer that is not paused in
\* the middle of a run, with a configured total > 0, sets timerRemaining and
\* timerInitialSet to the configured milliseconds and timerEndTime to now plus
\* that, so that a read of the remaining time right after it gives the
\* configured duration.
C7_StartSetsConfiguredDuration ==
    [][ (lastOp' = "start" /\ currentMode = "TIMER" /\ ~timerRunning /\ NotPausedMidRun
            /\ ConfiguredMs(inputH, inputM, inputS) > 0)
        => LET ms == ConfiguredMs(inputH, inputM, inputS)
           IN  /\ timerRunning'
               /\ timerRemaining' = ms
               /\ timerInitialSet' = ms
               /\ timerEndTime' = now + ms
               /\ Remaining(timerRunning', timerEndTime', timerRemaining', now') = ms ]_vars

\* C8: the banked timerRemaining is never negative.
C8_RemainingNeverNegative == timerRemaining >= 0

\* the caption of the start/pause button as derived from the state of the mode
Caption(mode) ==
    CASE mode = "STOPWATCH" ->
            IF swRunning THEN "Pause"
            ELSE IF swElapsedTime # 0 THEN "Resume" ELSE "Start"
      [] mode = "TIMER" -> IF timerRunning THEN "Pause" ELSE "Start"

\* C9: after switchMode to STOPWATCH or TIMER the caption of the start/pause
\* button is "Pause" if that mode is running, "Resume" if the mode is
\* STOPWATCH, not running, with banked time that is not zero, "Start" otherwise.
C9_CaptionAfterSwitch ==
    (lastOp = "switch" /\ currentMode \in {"STOPWATCH", "TIMER"})
    => btnStartText = Caption(currentMode)

\* C10: the hours, minutes and seconds shown are never negative, and the
\* minutes and seconds are in 0..59.
C10_DisplayWellFormed ==
    /\ shown[1] >= 0
    /\ shown[2] \in 0..(SecPerMin - 1)
    /\ shown[3] \in 0..(SecPerMin - 1)

\* the stopwatch branch of updateDisplay has just written the display
StopwatchRead == currentMode = "STOPWATCH" /\ lastOp \in {"tick", "switch", "reset"}

\* C11: for every elapsed time d >= 0 of the stopwatch, the components shown
\* satisfy hours*3600 + minutes*60 + seconds = floor(d/1000), with minutes and
\* seconds in 0..59 and the hours not wrapped at 24.
C11_StopwatchComponents ==
    StopwatchRead =>
        LET d == Elapsed(swRunning, swStartTime, swElapsedTime, now)
            total == shown[1] * SecPerHour + shown[2] * SecPerMin + shown[3]
        IN  /\ d >= 0
            /\ total * MsPerSec <= d /\ d < (total + 1) * MsPerSec
            /\ shown[2] \in 0..(SecPerMin - 1)
            /\ shown[3] \in 0..(SecPerMin - 1)
            /\ shown[1] * SecPerHour * MsPerSec <= d
            /\ d < (shown[1] + 1) * SecPerHour * MsPerSec

\* 25 h 1 min 59.999 s on the stopwatch
C11_Witness ==
    /\ StopwatchRead /\ lastOp = "tick" /\ ~swRunning
    /\ swElapsedTime = ((25 * SecPerHour + SecPerMin + 59) * MsPerSec) + 999
    /\ shown = <<25, 1, 59>> /\ timeDisplay = "25:01:59"

\* C12: a timer run that reaches its deadline while still running eventually
\* completes: under fair ticks, a running timer whose deadline the clock has
\* reached leads to a callback that stops it and raises the completion.
C12_DeadlineLeadsToCompletion ==
    (timerRunning /\ now >= timerEndTime) ~> (completeCalls = 1 /\ ~timerRunning)

\* C13: pausing and resuming the timer preserves the remaining time.  A pause
\* at an instant with r = timerEndTime - now > 0 banks r; while the timer
\* stays paused r and timerInitialSet stay as they are; and a resume at any
\* instant t sets timerEndTime = t + r without reading the inputs, leaves
\* timerInitialSet as it was, and a read of the remaining time right after it
\* gives r.
C13_PauseResumeKeepsRemaining ==
    [][ /\ (lastOp' = "start" /\ currentMode = "TIMER" /\ timerRunning
                /\ timerEndTime - now > 0)
            => (/\ ~timerRunning'
                /\ timerRemaining' = timerEndTime - now
                /\ UNCHANGED timerInitialSet)
        /\ (timerPhase = "paused" /\ timerRemaining > 0 /\ timerPhase' = "paused")
            => UNCHANGED <<timerRemaining, timerInitialSet>>
        /\ (lastOp' = "start" /\ currentMode = "TIMER" /\ timerPhase = "paused"
                /\ timerRemaining > 0)
            => (/\ timerRunning'
                /\ timerEndTime' = now + timerRemaining
                /\ UNCHANGED <<timerRemaining, timerInitialSet>>
                /\ Remaining(timerRunning', timerEndTime', timerRemaining', now')
                      = timerRemaining) ]_vars

\* a 1 s timer paused with Step left and resumed, at least Step later, at MaxNow
C13_Witness ==
    /\ lastOp = "start" /\ currentMode = "TIMER" /\ timerRunning
    /\ timerInitialSet = MsPerSec /\ timerRemaining = Step /\ timerRemaining < timerInitialSet
    /\ now = MaxNow /\ timerEndTime = now + Step

\* the timer branch of updateDisplay has just written the display
TimerRead == currentMode = "TIMER" /\ lastOp \in {"tick", "switch"}

ShownSeconds == shown[1] * SecPerHour + shown[2] * SecPerMin + shown[3]

\* C14: the countdown never shows zero early.  At a display read that finds
\* the timer running with timerEndTime - now > 0 the seconds shown are
\* ceil((timerEndTime - now) / 1000), so at least 1; and a read of a running
\* timer shows 00:00:00 only when it is the read at which the timer expires.
C14_NoEarlyZero ==
    [][ /\ (TimerRead' /\ timerRunning' /\ timerEndTime' - now' > 0)
            => (/\ (ShownSeconds' - 1) * MsPerSec < timerEndTime' - now'
                /\ timerEndTime' - now' <= ShownSeconds' * MsPerSec
                /\ ShownSeconds' >= 1
                /\ ~ShownZero')
        /\ (TimerRead' /\ timerRunning /\ ShownZero') => completeCalls' = 1 ]_vars

\* a tick that finds Step milliseconds left shows one second
C14_Witness ==
    /\ TimerRead /\ lastOp = "tick" /\ timerRunning
    /\ timerEndTime - now = Step /\ Step < MsPerSec
    /\ shown = <<0, 0, 1>> /\ timeDisplay = "00:00:01"

\* C15: timing state is changed only by start/pause and reset of its own
\* mode.  A press of start/pause or reset in STOPWATCH mode leaves every timer
\* field as it was, in TIMER mode every stopwatch field, in CLOCK mode all of
\* them; ticks and mode switches change no timing field except that they
\* clear timerRunning on expiry; and nothing else changes one either.
C15_TimingStateOwnedByMode ==
    [][ /\ (lastOp' \in {"start", "reset"} /\ currentMode = "STOPWATCH")
            => UNCHANGED timerVars
        /\ (lastOp' \in {"start", "reset"} /\ currentMode = "TIMER")
            => UNCHANGED swVars
        /\ (lastOp' \in {"start", "reset"} /\ currentMode = "CLOCK")
            => UNCHANGED <<swVars, timerVars>>
        /\ (lastOp' \in {"tick", "switch"})
            => (/\ UNCHANGED <<swVars, timerEndTime, timerRemaining, timerInitialSet>>
                /\ timerRunning' # timerRunning
                      => (timerRunning /\ ~timerRunning' /\ completeCalls' = 1
                            /\ now >= timerEndTime))
        /\ (lastOp' = "none") => UNCHANGED <<swVars, timerVars>> ]_vars

\* start/pause pressed in CLOCK mode beside a running stopwatch and a running timer
C15_Witness ==
    /\ lastOp = "start" /\ currentMode = "CLOCK"
    /\ swRunning /\ swRunTime > 0 /\ timerRunning /\ timerEndTime > now

\* C16: whenever the mode is STOPWATCH or TIMER, the caption of the start/pause
\* button is "Pause" exactly when that mode is running.
C16_PauseCaptionIffRunning ==
    /\ currentMode = "STOPWATCH" => (btnStartText = "Pause" <=> swRunning)
    /\ currentMode = "TIMER" => (btnStartText = "Pause" <=> timerRunning)

\* the switch into TIMER mode found the timer expired
C16_Witness ==
    /\ lastOp = "switch" /\ currentMode = "TIMER" /\ completeCalls = 1
    /\ ~timerRunning /\ btnStartText = "Start"

\* C17: a timer never runs with a duration that is not positive or is too
\* long.  Whenever timerRunning, 0 < timerRemaining <= timerInitialSet; the
\* step that starts it sets timerEndTime to that instant plus timerRemaining;
\* and neither changes for as long as it goes on running.
C17_RunningTimerWellFormed ==
    [][ /\ timerRunning' => (0 < timerRemaining' /\ timerRemaining' <= timerInitialSet')
        /\ (~timerRunning /\ timerRunning') => timerEndTime' = now' + timerRemaining'
        /\ (timerRunning /\ timerRunning')
            => UNCHANGED <<timerEndTime, timerRemaining, timerInitialSet>> ]_vars

\* a resumed timer, Step after the resume, seen by a tick in TIMER mode
C17_Witness ==
    /\ timerRunning /\ lastOp = "tick" /\ currentMode = "TIMER"
    /\ 0 < timerRemaining /\ timerRemaining < timerInitialSet
    /\ now = timerEndTime - timerRemaining + Step /\ now < timerEndTime

=============================================================================
